---- MODULE Spec2Model ----
(***************************************************************************)
(* Model of investment_app.py (src/python.py): the Streamlit script that   *)
(* converts the extracted parameters, projects the uniform cash-flow       *)
(* table and calls calculate_project_metrics (NPV, IRR, PP, DPP).          *)
(*                                                                         *)
(* Numbers.  Python floats are modelled as exact rationals [n, d] in       *)
(* lowest terms with d > 0.  -0.0 and 0.0 are the same value, NaN never    *)
(* arises from the inputs enumerated here, and rounding is not modelled.   *)
(*                                                                         *)
(* Values.  Every Python value that can be a number or something else is   *)
(* a record [kind, val]: kind "num" carries the rational val; any other    *)
(* kind ("bad", "missing", "undef", "nan", "rate", "never", "none") has    *)
(* val = Zero.                                                             *)
(*                                                                         *)
(* Control flow.  src/python.py lines 371 and 373 carry the indentation    *)
(* of each other (the except clause sits at the depth of the if, its else  *)
(* at the depth of the try), so the file as stored does not compile.  The  *)
(* model follows the only nesting that pairs every clause: the try of      *)
(* line 295 owns the except of line 371, the if of line 333 owns the else  *)
(* of line 373.                                                            *)
(***************************************************************************)
EXTENDS Integers, Sequences, FiniteSets, TLC

VARIABLES
    pc,                 \* position of the script run
    extracted_data,     \* st.session_state['extracted_data']
    initial_investment, project_life, annual_revenue, annual_cost, wacc, tax_rate,
    messages,           \* the st.error / st.warning calls of the run
    df_cashflow,        \* the cash-flow table, a sequence of rows
    npv, irr, pp, dpp,  \* what calculate_project_metrics returned
    metrics_data,       \* the mapping handed to get_ai_evaluation
    irr_shown,          \* the text of the IRR metric widget (line 354)
    ai_prompt_irr       \* irr_display inside get_ai_evaluation (line 173)

paramVars == <<initial_investment, project_life, annual_revenue, annual_cost, wacc, tax_rate>>
resultVars == <<npv, irr, pp, dpp>>
vars == <<pc, extracted_data, paramVars, messages, df_cashflow, resultVars,
          metrics_data, irr_shown, ai_prompt_irr>>

----------------------------------------------------------------------------
(* Exact rational arithmetic standing for Python float arithmetic.         *)

Abs(x) == IF x < 0 THEN -x ELSE x

RECURSIVE GCD(_, _)
GCD(a, b) == IF b = 0 THEN a ELSE GCD(b, a % b)

Rat(n, d) ==
    LET s == IF d < 0 THEN -1 ELSE 1
        g == GCD(Abs(n), Abs(d))
    IN  [n |-> (s * n) \div g, d |-> (s * d) \div g]

Zero == [n |-> 0, d |-> 1]
One == [n |-> 1, d |-> 1]
FromInt(k) == [n |-> k, d |-> 1]

RNeg(a) == [n |-> -a.n, d |-> a.d]
RAbs(a) == [n |-> Abs(a.n), d |-> a.d]

RAdd(a, b) ==
    LET g == GCD(a.d, b.d)
        L == (a.d \div g) * b.d
    IN  Rat(a.n * (L \div a.d) + b.n * (L \div b.d), L)

RSub(a, b) == RAdd(a, RNeg(b))

RMul(a, b) ==
    LET g1 == GCD(Abs(a.n), b.d)
        g2 == GCD(Abs(b.n), a.d)
    IN  Rat((a.n \div g1) * (b.n \div g2), (a.d \div g2) * (b.d \div g1))

\* a / b for b # 0
RDiv(a, b) == RMul(a, IF b.n > 0 THEN [n |-> b.d, d |-> b.n] ELSE [n |-> -b.d, d |-> -b.n])

RLt(a, b) == RSub(a, b).n < 0
RLe(a, b) == RSub(a, b).n <= 0

RECURSIVE RPow(_, _)
RPow(a, k) == IF k = 0 THEN One ELSE RMul(a, RPow(a, k - 1))

\* int(x): truncation toward zero
RTrunc(a) == IF a.n >= 0 THEN a.n \div a.d ELSE -((-a.n) \div a.d)

Num(r) == [kind |-> "num", val |-> r]
Other(k) == [kind |-> k, val |-> Zero]
NaN == Other("nan")
NoValue == Other("none")

----------------------------------------------------------------------------
(* calculate_project_metrics                                               *)

\* df_cashflow['Dòng tiền thuần (CF)'].values
CFColumn(df) == [i \in 1..Len(df) |-> df[i].CF]

\* np.insert(cash_flows, 0, -initial_investment)
FullCashFlows(cash_flows, investment) == <<RNeg(investment)>> \o cash_flows

\* 1 / ((1 + wacc) ** np.arange(0, len(full_cash_flows)))
DiscountFactors(rate, len) == [i \in 1..len |-> RDiv(One, RPow(RAdd(One, rate), i - 1))]

\* full_cash_flows * discount_factors
DiscountedCF(flows, rate) ==
    LET f == DiscountFactors(rate, Len(flows))
    IN  [i \in 1..Len(flows) |-> RMul(flows[i], f[i])]

\* np.cumsum
RECURSIVE CumSumTo(_, _)
CumSumTo(flows, i) == IF i = 0 THEN Zero ELSE RAdd(CumSumTo(flows, i - 1), flows[i])
CumSum(flows) == [i \in 1..Len(flows) |-> CumSumTo(flows, i)]

\* npf.npv(wacc, full_cash_flows): sum of values[i] / (1 + rate) ** i
NpvValue(flows, rate) == CumSumTo(DiscountedCF(flows, rate), Len(flows))

\* variant of Reached: the test written as > 0
ReachedStrict(c) == c.n > 0
\* the element test of np.where(cumulative >= 0)
Reached(c) == c.n >= 0

\* np.where(cumulative >= 0)[0], as the set of 0-based indices
WhereReached(cum) == {i - 1 : i \in {j \in 1..Len(cum) : Reached(cum[j])}}

\* variant of FirstIndex: pp_year[-1]
LastIndex(S) == CHOOSE y \in S : \A z \in S : z <= y
\* pp_year[0]: the first element of the ascending index array
FirstIndex(S) == CHOOSE y \in S : \A z \in S : y <= z

\* variant of Interpolate: pp_year + (capital_remaining / cf_of_payback_year)
InterpolateNoOffset(year, capital_remaining, cf) == RAdd(FromInt(year), RDiv(capital_remaining, cf))
\* pp_year - 1 + (capital_remaining / cf_of_payback_year)
Interpolate(year, capital_remaining, cf) == RAdd(FromInt(year - 1), RDiv(capital_remaining, cf))

\* Lines 121-136 for PP on full_cash_flows, lines 141-156 for DPP on
\* discounted_cf: the same statements on a different vector.  branch records
\* which assignment produced the result.
Payback(flows) ==
    LET cum == CumSum(flows)
        years == WhereReached(cum)
    IN  IF years = {}
        THEN [kind |-> "never", val |-> Zero, branch |-> "initial"]
        ELSE LET year == FirstIndex(years)
             IN  IF year = 0
                 THEN [kind |-> "num", val |-> Zero, branch |-> "year0"]
                 ELSE LET capital_remaining == RAbs(cum[year])      \* cumulative[year-1], 0-based
                          cf_of_payback_year == flows[year + 1]     \* flows[year], 0-based
                      IN  IF cf_of_payback_year # Zero
                          THEN [kind |-> "num",
                                val |-> Interpolate(year, capital_remaining, cf_of_payback_year),
                                branch |-> "interpolated"]
                          ELSE [kind |-> "num", val |-> FromInt(year), branch |-> "zero_cf"]

\* Signs of the entries, zeros dropped
RECURSIVE NonZeroSigns(_)
NonZeroSigns(flows) ==
    IF flows = <<>> THEN <<>>
    ELSE LET h == Head(flows)
         IN  (IF h.n = 0 THEN <<>> ELSE <<IF h.n > 0 THEN 1 ELSE -1>>) \o NonZeroSigns(Tail(flows))

SignChanges(flows) ==
    LET s == NonZeroSigns(flows)
    IN  Cardinality({i \in 1..(Len(s) - 1) : s[i] # s[i + 1]})

SameSign(flows) ==
    \/ \A i \in 1..Len(flows) : flows[i].n > 0
    \/ \A i \in 1..Len(flows) : flows[i].n < 0

\* What npf.irr(values) can return, and with it the except branch of line 118.
\* All entries of one strict sign: nan.  Exactly one sign change: the NPV
\* polynomial has exactly one positive root, the rate.  Otherwise (zeros without
\* a sign change, or several sign changes) the solver finds a rate or gives nan.
IrrOutcomes(values) ==
    IF SameSign(values) THEN {NaN}
    ELSE IF SignChanges(values) = 1 THEN {Other("rate")}
    ELSE {NaN, Other("rate")}

\* variant of IrrArgument: npf.irr(cash_flows), year 0 left out
IrrArgumentYearlyOnly(cash_flows, investment) == cash_flows
\* the array handed to npf.irr
IrrArgument(cash_flows, investment) == FullCashFlows(cash_flows, investment)

\* The values calculate_project_metrics can return for one call
calculate_project_metrics(df, investment, rate) ==
    LET cash_flows == CFColumn(df)
        full_cash_flows == FullCashFlows(cash_flows, investment)
        discounted_cf == DiscountedCF(full_cash_flows, rate)
    IN  { [npv |-> Num(NpvValue(full_cash_flows, rate)),
           irr |-> r,
           pp |-> Payback(full_cash_flows),
           dpp |-> Payback(discounted_cf)] : r \in IrrOutcomes(IrrArgument(cash_flows, investment)) }

----------------------------------------------------------------------------
(* Calls of calculate_project_metrics on arbitrary cash-flow columns.      *)

MaxLen == 3
MetricFlowValues == {FromInt(-500), Zero, FromInt(100), FromInt(500)}
MetricInvestments == {Zero, FromInt(300), FromInt(1000)}
MetricRates == {Rat(1, 10), One}

RECURSIVE SeqsOfLen(_, _)
SeqsOfLen(S, k) ==
    IF k = 0 THEN {<<>>} ELSE {Append(s, x) : s \in SeqsOfLen(S, k - 1), x \in S}

MetricColumns == UNION {SeqsOfLen(MetricFlowValues, k) : k \in 1..MaxLen}

MetricsInit ==
    /\ pc = "call"
    /\ extracted_data = NoValue
    /\ \E col \in MetricColumns :
          df_cashflow = [i \in 1..Len(col) |-> [Nam |-> i, CF |-> col[i]]]
    /\ initial_investment \in {Num(c) : c \in MetricInvestments}
    /\ wacc \in {Num(r) : r \in MetricRates}
    /\ project_life = Num(FromInt(Len(df_cashflow)))
    /\ annual_revenue = NoValue /\ annual_cost = NoValue /\ tax_rate = NoValue
    /\ messages = {}
    /\ npv = NoValue /\ irr = NoValue /\ pp = NoValue /\ dpp = NoValue
    /\ metrics_data = NoValue
    /\ irr_shown = "" /\ ai_prompt_irr = ""

CallMetrics ==
    /\ pc = "call"
    /\ \E m \in calculate_project_metrics(df_cashflow, initial_investment.val, wacc.val) :
          /\ npv' = m.npv /\ irr' = m.irr /\ pp' = m.pp /\ dpp' = m.dpp
    /\ pc' = "returned"
    /\ UNCHANGED <<extracted_data, paramVars, messages, df_cashflow, metrics_data,
                   irr_shown, ai_prompt_irr>>

MetricsNext == CallMetrics

SpecMetrics == MetricsInit /\ [][MetricsNext]_vars

----------------------------------------------------------------------------
(* The script: conversion and validation of the extracted mapping          *)

Bad == Other("bad")          \* a value float() / int() raises on
Missing == Other("missing")  \* the key is absent: data.get returns its default
Undef == Other("undef")      \* a Python name that was never assigned

\* data.get(key, default)
Get(raw, default) == IF raw.kind = "missing" THEN Num(default) ELSE raw

DefaultWacc == Rat(13, 100)
DefaultTaxRate == Rat(1, 5)

\* lines 249-254 in order: the value each conversion yields, "bad" where it raises
Conversions(data) ==
    << Get(data.von_dau_tu, Zero),
       LET v == Get(data.dong_doi_du_an, Zero)
       IN  IF v.kind = "num" THEN Num(FromInt(RTrunc(v.val))) ELSE v,
       Get(data.doanh_thu, Zero),
       Get(data.chi_phi, Zero),
       Get(data.WACC, DefaultWacc),
       Get(data.thue_suat, DefaultTaxRate) >>

\* the conversions that raise
Raising(data) == {i \in 1..6 : Conversions(data)[i].kind = "bad"}

\* variant of Normalize: the lower test written as >= 1
NormalizeFromOne(v) == IF RLe(One, v) /\ RLe(v, FromInt(100)) THEN RDiv(v, FromInt(100)) ELSE v
\* lines 257-258: if v > 1 and v <= 100: v /= 100
Normalize(v) == IF RLt(One, v) /\ RLe(v, FromInt(100)) THEN RDiv(v, FromInt(100)) ELSE v

\* variant of CoerceLife: the error is reported but the life is kept
CoerceLifeKept(life) == life
\* lines 261-263: the life in use after the validity check
CoerceLife(life) == IF life.n <= 0 THEN FromInt(1) ELSE life

Init ==
    /\ pc = "idle"
    /\ extracted_data = NoValue
    /\ initial_investment = Undef /\ project_life = Undef /\ annual_revenue = Undef
    /\ annual_cost = Undef /\ wacc = Undef /\ tax_rate = Undef
    /\ messages = {}
    /\ df_cashflow = <<>>
    /\ npv = NoValue /\ irr = NoValue /\ pp = NoValue /\ dpp = NoValue
    /\ metrics_data = NoValue
    /\ irr_shown = "" /\ ai_prompt_irr = ""

\* lines 247-267, the whole try / except
ConvertParameters ==
    /\ pc = "convert"
    /\ LET c == Conversions(extracted_data)
           r == Raising(extracted_data)
       IN  IF r = {}
           THEN /\ initial_investment' = c[1]
                /\ annual_revenue' = c[3]
                /\ annual_cost' = c[4]
                /\ wacc' = Num(Normalize(c[5].val))
                /\ tax_rate' = Num(Normalize(c[6].val))
                /\ project_life' = Num(CoerceLife(c[2].val))
                /\ messages' = IF c[2].val.n <= 0 THEN messages \cup {"life_error"} ELSE messages
           ELSE LET first == CHOOSE i \in r : \A j \in r : i <= j
                IN  /\ messages' = messages \cup {"conversion_error"}
                    /\ initial_investment' = Num(Zero)
                    /\ project_life' = Num(FromInt(1))
                    /\ wacc' = Num(DefaultWacc)
                    /\ tax_rate' = Num(DefaultTaxRate)
                    \* assigned only when its own line ran before the exception
                    /\ annual_revenue' = IF first > 3 THEN c[3] ELSE Undef
                    /\ annual_cost' = IF first > 4 THEN c[4] ELSE Undef
    /\ pc' = "display"
    /\ UNCHANGED <<extracted_data, df_cashflow, resultVars, metrics_data, irr_shown, ai_prompt_irr>>

\* lines 270-287: the six metric widgets; reading an unassigned name raises
\* NameError outside any try, which ends the run
DisplayParameters ==
    /\ pc = "display"
    /\ pc' = IF annual_revenue = Undef \/ annual_cost = Undef THEN "crashed" ELSE "project"
    /\ UNCHANGED <<extracted_data, paramVars, messages, df_cashflow, resultVars,
                   metrics_data, irr_shown, ai_prompt_irr>>

----------------------------------------------------------------------------
(* The script: cash-flow table, metrics, warnings                          *)

\* variant of Tax: Tax = EBT * tax_rate in every year
TaxOnLossToo(EBT, rate) == RMul(EBT, rate)
\* line 302: Tax = EBT * tax_rate if EBT > 0 else 0
Tax(EBT, rate) == IF EBT.n > 0 THEN RMul(EBT, rate) ELSE Zero

\* lines 297-319: the table, one row per year of np.arange(1, project_life + 1)
CashFlowTable(investment, life, revenue, cost, rate) ==
    LET depreciation == RDiv(investment, FromInt(life))
        EBT == RSub(RSub(revenue, cost), depreciation)
        tax == Tax(EBT, rate)
        EAT == RSub(EBT, tax)
        CF == RAdd(EAT, depreciation)
    IN  [y \in 1..life |->
            [Nam |-> y, R |-> revenue, C |-> cost, D |-> depreciation,
             EBT |-> EBT, Tax |-> tax, EAT |-> EAT, CF |-> CF]]

\* line 294: project_life > 0 and initial_investment >= 0
CanProject == project_life.val.n > 0 /\ initial_investment.val.n >= 0

\* variant of WaccPositive: wacc >= 0
WaccAccepted(w) == w.n >= 0
\* line 333: wacc > 0
WaccPositive(w) == w.n > 0

\* np.isnan
IsNaN(v) == v.kind = "nan"

\* line 338: irr if not np.isnan(irr) else 0.0
MetricsIrr(v) == IF ~IsNaN(v) THEN v ELSE Num(Zero)

\* lines 173 and 354: f"{x:.2%}" if not np.isnan(x) else "Không tính được"
IrrDisplay(v) ==
    IF IsNaN(v) THEN "Khong tinh duoc"
    ELSE IF v.kind = "num" THEN "0.00%"      \* the only plain number here is 0.0
    ELSE "rate%"

\* lines 292-326
ProjectCashFlow ==
    /\ pc = "project"
    /\ CanProject
    /\ df_cashflow' = CashFlowTable(initial_investment.val, project_life.val.n,
                                    annual_revenue.val, annual_cost.val, tax_rate.val)
    /\ pc' = "evaluate"
    /\ UNCHANGED <<extracted_data, paramVars, messages, resultVars, metrics_data,
                   irr_shown, ai_prompt_irr>>

\* lines 381-382
RejectProjection ==
    /\ pc = "project"
    /\ ~CanProject
    /\ messages' = messages \cup {"projection_warning"}
    /\ pc' = "done"
    /\ UNCHANGED <<extracted_data, paramVars, df_cashflow, resultVars, metrics_data,
                   irr_shown, ai_prompt_irr>>

\* lines 333-369: the metrics, their widgets and the analysis button.
\* button is what st.button and api_key are in this run.
EvaluateMetrics ==
    /\ pc = "evaluate"
    /\ WaccPositive(wacc.val)
    /\ \E m \in calculate_project_metrics(df_cashflow, initial_investment.val, wacc.val),
          button \in {"not_clicked", "clicked", "clicked_without_key"} :
          /\ npv' = m.npv /\ irr' = m.irr /\ pp' = m.pp /\ dpp' = m.dpp
          /\ metrics_data' = [NPV |-> m.npv, IRR |-> MetricsIrr(m.irr), PP |-> m.pp, DPP |-> m.dpp]
          /\ irr_shown' = IrrDisplay(m.irr)
          /\ ai_prompt_irr' = IF button = "clicked" THEN IrrDisplay(MetricsIrr(m.irr)) ELSE ai_prompt_irr
          /\ messages' = IF button = "clicked_without_key"
                         THEN messages \cup {"api_key_error"} ELSE messages
    /\ pc' = "irr_check"
    /\ UNCHANGED <<extracted_data, paramVars, df_cashflow>>

\* lines 373-374
WarnWacc ==
    /\ pc = "evaluate"
    /\ ~WaccPositive(wacc.val)
    /\ messages' = messages \cup {"wacc_warning"}
    /\ pc' = "irr_check"
    /\ UNCHANGED <<extracted_data, paramVars, df_cashflow, resultVars, metrics_data,
                   irr_shown, ai_prompt_irr>>

\* lines 376-378
CheckIrrWarning ==
    /\ pc = "irr_check"
    /\ messages' = IF /\ WaccPositive(wacc.val)
                      /\ metrics_data # NoValue
                      /\ IsNaN(metrics_data.IRR)
                   THEN messages \cup {"irr_warning"} ELSE messages
    /\ pc' = "done"
    /\ UNCHANGED <<extracted_data, paramVars, df_cashflow, resultVars, metrics_data,
                   irr_shown, ai_prompt_irr>>

----------------------------------------------------------------------------
(* The extracted mappings the runs are checked on.  Two families, so that  *)
(* the exact arithmetic of the discounting stays inside TLC's integers:    *)
(* ScheduleInputs varies investment, life, revenue and cost under plain    *)
(* rates; RateInputs varies WACC and tax rate on a short project.  Money   *)
(* is in units of 10^9 VND.                                                *)

MaxLife == 5
MaxRateLife == 2

Q(n, d) == Num(Rat(n, d))

ScheduleInputs ==
    [von_dau_tu : {Bad, Missing, Q(-10, 1), Q(30, 1)},
     dong_doi_du_an : {Bad, Missing, Q(-2, 1), Q(1, 2), Q(5, 2)} \cup {Q(k, 1) : k \in 1..MaxLife},
     doanh_thu : {Bad, Q(4, 1), Q(6, 1), Q(15, 1)},
     chi_phi : {Bad, Q(6, 1)},
     WACC : {Q(0, 1), Q(1, 10)},
     thue_suat : {Q(1, 5)}]

RateInputs ==
    [von_dau_tu : {Q(4, 1)},
     dong_doi_du_an : {Q(k, 1) : k \in 1..MaxRateLife},
     doanh_thu : {Q(9, 1)},
     chi_phi : {Q(6, 1)},
     WACC : {Bad, Missing, Q(-1, 10), Q(0, 1), Q(13, 100), Q(1, 1), Q(13, 1), Q(100, 1), Q(150, 1)},
     thue_suat : {Bad, Missing, Q(0, 1), Q(1, 5), Q(1, 1), Q(20, 1), Q(100, 1), Q(150, 1)}]

ExtractedInputs == ScheduleInputs \cup RateInputs

\* line 233: the extraction button stores the mapping; the script then runs on it
ExtractData ==
    /\ pc = "idle"
    /\ extracted_data' \in ExtractedInputs
    /\ pc' = "convert"
    /\ UNCHANGED <<paramVars, messages, df_cashflow, resultVars, metrics_data,
                   irr_shown, ai_prompt_irr>>

Next ==
    \/ ExtractData
    \/ ConvertParameters
    \/ DisplayParameters
    \/ ProjectCashFlow
    \/ RejectProjection
    \/ EvaluateMetrics
    \/ WarnWacc
    \/ CheckIrrWarning

Spec == Init /\ [][Next]_vars

----------------------------------------------------------------------------
(* Properties of calculate_project_metrics, checked under SpecMetrics      *)

\* F = [-initialInvestment, CF_1 .. CF_N] of the call in progress
CallVector == <<RNeg(initial_investment.val)>> \o [i \in 1..Len(df_cashflow) |-> df_cashflow[i].CF]

\* F_i / (1 + wacc)^i, i counted from 0
CallDiscountedVector ==
    [i \in 1..Len(CallVector) |-> RDiv(CallVector[i], RPow(RAdd(One, wacc.val), i - 1))]

\* sum of F_0 .. F_y, y counted from 0
RECURSIVE PrefixSum(_, _)
PrefixSum(F, y) == IF y < 0 THEN Zero ELSE RAdd(F[y + 1], PrefixSum(F, y - 1))

\* y is the smallest index whose cumulative sum is >= 0
IsPaybackIndex(F, y) ==
    /\ PrefixSum(F, y).n >= 0
    /\ \A j \in 0..(y - 1) : PrefixSum(F, j).n < 0

PaybackAsStated(F, result) ==
    \A y \in 0..(Len(F) - 1) :
        IsPaybackIndex(F, y) =>
            /\ result.kind = "num"
            /\ IF y = 0 THEN result.val = Zero
               ELSE /\ F[y + 1] # Zero
                    /\ result.val = RAdd(FromInt(y - 1), RDiv(RAbs(PrefixSum(F, y - 1)), F[y + 1]))

ExampleExactPayback == <<FromInt(-1000), FromInt(500), FromInt(500), FromInt(500)>>
ExampleNeverRecovers == <<FromInt(-1000), FromInt(100), FromInt(100)>>

\* C1: the returned PP (on F) and DPP (on the discounted F) are 0 when the
\* first index y with cumulative sum >= 0 is 0, and (y-1) + |cumulative sum
\* through y-1| / F_y otherwise; C0 = 1000, CF = [500, 500, 500] gives PP = 2.
C1_PaybackFormula ==
    pc = "returned" =>
        /\ PaybackAsStated(CallVector, pp)
        /\ PaybackAsStated(CallDiscountedVector, dpp)
        /\ (CallVector = ExampleExactPayback => pp.val = FromInt(2))

C1_Witness ==
    /\ pc = "returned"
    /\ CallVector = ExampleExactPayback
    /\ pp.kind = "num" /\ pp.val = FromInt(2)
    /\ dpp.branch = "interpolated" /\ dpp.val.d # 1

NeverReaches(F) == \A y \in 0..(Len(F) - 1) : PrefixSum(F, y).n < 0

\* C2: PP is the never-recovers sentinel exactly when no prefix of F has a
\* cumulative sum >= 0, DPP exactly when no prefix of the discounted F has;
\* otherwise the result is a number; C0 = 1000, CF = [100, 100] never recovers.
C2_NeverRecoversIff ==
    pc = "returned" =>
        /\ pp.kind \in {"never", "num"} /\ dpp.kind \in {"never", "num"}
        /\ (pp.kind = "never") <=> NeverReaches(CallVector)
        /\ (dpp.kind = "never") <=> NeverReaches(CallDiscountedVector)
        /\ (CallVector = ExampleNeverRecovers => pp.kind = "never")

C2_Witness ==
    /\ pc = "returned"
    /\ CallVector = ExampleNeverRecovers
    /\ pp.kind = "never" /\ dpp.kind = "never"

InterpolationAsStated(F, result) ==
    /\ result.branch # "zero_cf"
    /\ \A y \in 1..(Len(F) - 1) :
          IsPaybackIndex(F, y) =>
              /\ F[y + 1].n > 0
              /\ LET fraction == RDiv(RAbs(PrefixSum(F, y - 1)), F[y + 1])
                 IN  fraction.n > 0 /\ RLe(fraction, One)
              /\ RLt(FromInt(y - 1), result.val)
              /\ RLe(result.val, FromInt(y))

ConventionalProject ==
    /\ initial_investment.val.n > 0
    /\ \A i \in 1..Len(df_cashflow) : df_cashflow[i].CF.n > 0

\* C4 as stated: with C0 > 0 and every CF_i > 0 the IRR is not computable.
C4_AsStated == (pc = "returned" /\ ConventionalProject) => irr = NaN

\* C4, amended: with C0 > 0 and every CF_i > 0 the vector changes sign once
\* and the IRR is a rate; with C0 > 0 and every CF_i < 0 there is no sign
\* change and the IRR is not computable.
C4_SignChange ==
    (pc = "returned" /\ initial_investment.val.n > 0) =>
        /\ (\A i \in 1..Len(df_cashflow) : df_cashflow[i].CF.n > 0)
              => (irr.kind = "rate" /\ SignChanges(CallVector) = 1)
        /\ (\A i \in 1..Len(df_cashflow) : df_cashflow[i].CF.n < 0)
              => (irr = NaN /\ SignChanges(CallVector) = 0)

C4_Witness ==
    /\ pc = "returned"
    /\ ConventionalProject
    /\ Len(df_cashflow) >= 2
    /\ irr.kind = "rate"

----------------------------------------------------------------------------
(* Properties of the script, checked under Spec                            *)

Loaded == pc # "idle"
Converted == pc \notin {"idle", "convert"}
Evaluated == pc \in {"irr_check", "done"} /\ npv # NoValue
MetricsProduced == npv # NoValue \/ irr # NoValue \/ pp # NoValue \/ dpp # NoValue
                       \/ metrics_data # NoValue

\* the value each key supplies, before int() and before normalization
SuppliedInvestment == Get(extracted_data.von_dau_tu, Zero)
SuppliedLife == Get(extracted_data.dong_doi_du_an, Zero)
SuppliedWacc == Get(extracted_data.WACC, DefaultWacc)
SuppliedTaxRate == Get(extracted_data.thue_suat, DefaultTaxRate)
Malformed == Raising(extracted_data) # {}

\* C3 as stated: when the IRR is not computable, the returned value, the
\* metrics_data mapping handed to get_ai_evaluation, the displayed IRR and its
\* warning all carry "not computable", never the number 0.
C3_NotComputableEverywhere ==
    (Evaluated /\ IsNaN(irr)) =>
        /\ IsNaN(metrics_data.IRR)
        /\ irr_shown = "Khong tinh duoc"
        /\ ai_prompt_irr \in {"", "Khong tinh duoc"}
        /\ (pc = "done" => "irr_warning" \in messages)

\* C5 as stated: in every run whose normalized wacc is <= 0 no metric is
\* produced and the WACC warning is signaled.
C5_AsStated ==
    (pc = "done" /\ wacc.kind = "num" /\ wacc.val.n <= 0) =>
        (~MetricsProduced /\ "wacc_warning" \in messages)

\* C5, amended: metrics are produced only when wacc > 0; in every run whose
\* normalized wacc is <= 0 none is produced, and the WACC warning is signaled
\* whenever the run reached the cash-flow table (life > 0, investment >= 0).
C5_WaccGuard ==
    /\ MetricsProduced => (wacc.kind = "num" /\ wacc.val.n > 0)
    /\ (pc = "done" /\ wacc.kind = "num" /\ wacc.val.n <= 0) =>
          /\ ~MetricsProduced
          /\ CanProject => ("wacc_warning" \in messages /\ df_cashflow # <<>>)

C5_Witness ==
    /\ pc = "done"
    /\ wacc.kind = "num" /\ wacc.val.n <= 0
    /\ df_cashflow # <<>>
    /\ "wacc_warning" \in messages
    /\ ~MetricsProduced

NormalizedAsStated(v) ==
    IF RLt(One, v) /\ RLe(v, FromInt(100)) THEN RDiv(v, FromInt(100))
    ELSE IF RLe(v, One) THEN v
    ELSE v

InPercentRange(v) == RLt(One, v) /\ RLe(v, FromInt(100))

ProjectionReached == pc \in {"project", "evaluate", "irr_check"} \/ (pc = "done" /\ df_cashflow # <<>>)
LifeNotPositive == SuppliedLife.kind = "num" /\ SuppliedLife.val.n <= 0

\* C7: whenever the projection step is reached the life in use is an integer
\* >= 1; a supplied life <= 0 is replaced by 1 with an error message in the
\* same run, and the run goes on to the cash-flow table instead of aborting.
C7_LifeAtLeastOne ==
    /\ ProjectionReached =>
          (project_life.kind = "num" /\ project_life.val.d = 1 /\ project_life.val.n >= 1)
    /\ (Converted /\ LifeNotPositive) =>
          /\ project_life = Num(FromInt(1))
          /\ IF Malformed THEN "conversion_error" \in messages ELSE "life_error" \in messages
    /\ (Converted /\ LifeNotPositive /\ ~Malformed) => pc # "crashed"
    /\ (pc = "done" /\ LifeNotPositive /\ ~Malformed /\ initial_investment.val.n >= 0) =>
          Len(df_cashflow) = 1

C7_Witness ==
    /\ pc = "done"
    /\ SuppliedLife = Num(FromInt(-2))
    /\ ~Malformed
    /\ project_life = Num(FromInt(1))
    /\ "life_error" \in messages
    /\ Len(df_cashflow) = 1

Max0(x) == IF x.n > 0 THEN x ELSE Zero

RowAsStated(row, y) ==
    /\ row.Nam = y
    /\ row.R = annual_revenue.val /\ row.C = annual_cost.val
    /\ row.D = RDiv(initial_investment.val, project_life.val)
    /\ row.EBT = RSub(RSub(row.R, row.C), row.D)
    /\ row.Tax = RMul(Max0(row.EBT), tax_rate.val)
    /\ (row.EBT.n <= 0 => row.Tax = Zero)
    /\ row.EAT = RSub(row.EBT, row.Tax)
    /\ row.CF = RAdd(row.EAT, row.D)

ExampleParameters ==
    /\ initial_investment.val = FromInt(30) /\ project_life.val = FromInt(5)
    /\ annual_revenue.val = FromInt(15) /\ annual_cost.val = FromInt(6)
    /\ tax_rate.val = Rat(1, 5)

\* C8: for investment >= 0 and life N >= 1 the table has exactly N rows, years
\* 1..N in order, each with depreciation = investment / N, ebt = revenue - cost
\* - depreciation, tax = max(ebt, 0) * rate, eat = ebt - tax, cf = eat +
\* depreciation, all rows equal but for the year; investment 30, N = 5, revenue
\* 15, cost 6, rate 0.20 (in 10^9) gives five rows with cf = 8.4.
C8_Schedule ==
    /\ (pc \in {"evaluate", "irr_check"} \/ (pc = "done" /\ CanProject)) =>
          (Len(df_cashflow) = project_life.val.n /\ Len(df_cashflow) >= 1)
    /\ df_cashflow # <<>> =>
          /\ initial_investment.val.n >= 0
          /\ Len(df_cashflow) = project_life.val.n
          /\ \A y \in 1..Len(df_cashflow) : RowAsStated(df_cashflow[y], y)
          /\ \A y, z \in 1..Len(df_cashflow) :
                [df_cashflow[y] EXCEPT !.Nam = 0] = [df_cashflow[z] EXCEPT !.Nam = 0]
          /\ ExampleParameters =>
                \A y \in 1..5 :
                    /\ df_cashflow[y].D = FromInt(6) /\ df_cashflow[y].EBT = FromInt(3)
                    /\ df_cashflow[y].Tax = Rat(3, 5) /\ df_cashflow[y].EAT = Rat(12, 5)
                    /\ df_cashflow[y].CF = Rat(42, 5)

C8_Witness ==
    /\ pc = "done"
    /\ ExampleParameters
    /\ Len(df_cashflow) = 5
    /\ df_cashflow[5].Nam = 5 /\ df_cashflow[5].CF = Rat(42, 5)

InvalidInput ==
    \/ Malformed
    \/ (SuppliedInvestment.kind = "num" /\ SuppliedInvestment.val.n < 0)

\* C9 as stated: when an extracted value is malformed or the investment is
\* negative, the run produces no cash-flow table and no metrics, surfaces an
\* error naming the cause, and does not end in an uncaught failure.
C9_InvalidRejected ==
    (Loaded /\ InvalidInput) =>
        /\ pc # "crashed"
        /\ df_cashflow = <<>>
        /\ ~MetricsProduced
        /\ (pc = "done" => messages \cap {"conversion_error", "projection_warning"} # {})

====
